---- MODULE Spec2Model ----
(***************************************************************************)
(* Model of CarbonCreditSimulation (src/Carlos.py): the Monte Carlo        *)
(* valuation of conventional land use, the NPV engine, the grid search for *)
(* competitive carbon-credit prices and the summary computed by            *)
(* run_simulation.                                                         *)
(*                                                                         *)
(* Numbers.  The program computes in binary floating point; the model      *)
(* computes the same expressions over exact rationals <<n, d>> (d > 0,     *)
(* lowest terms), so that comparisons against the threshold are decided    *)
(* exactly.  Rounding is not modelled.                                     *)
(*                                                                         *)
(* Random source.  numpy's global generator is a deterministic state       *)
(* machine; it is modelled as the cyclic sequence rng of the standard      *)
(* normal variates it is about to produce.  A draw of n values reads the   *)
(* first n entries and rotates the sequence by n.                          *)
(***************************************************************************)
EXTENDS Integers, Sequences, FiniteSets, TLC

\* ------------------------------------------------------------------ bounds
\* Largest num_simulations of a run.
MaxTrials == 3
\* Largest TIME_HORIZON of a run with a non-zero discount rate.
MaxHorizon == 3
\* One long horizon, run with discount rate 0, where the flow payments weigh
\* as much as the stock payment.
LongHorizon == 61
\* Points per price axis (np.linspace(0, 1000, 100) in the source; the model
\* keeps the range and shrinks the number of points).
Resolution == 3
\* Period of the modelled random source.
StreamPeriod == 3
\* Longest cash-flow vector handed to calculate_npv by an outside caller.
MaxLen == 3

\* --------------------------------------------------------------- rationals
RECURSIVE GCD(_, _)
GCD(a, b) == IF b = 0 THEN a ELSE GCD(b, a % b)

Abs(n) == IF n < 0 THEN -n ELSE n

Rat(n, d) ==
    LET g == GCD(Abs(n), Abs(d))
        s == IF d < 0 THEN -1 ELSE 1
    IN  <<(s * n) \div g, (s * d) \div g>>

FromInt(n) == <<n, 1>>
R0 == FromInt(0)
R1 == FromInt(1)

RAdd(x, y) ==
    LET g == GCD(x[2], y[2])
    IN  Rat(x[1] * (y[2] \div g) + y[1] * (x[2] \div g), (x[2] \div g) * y[2])

RNeg(x) == <<-x[1], x[2]>>
RSub(x, y) == RAdd(x, RNeg(y))

RMul(x, y) ==
    LET g1 == GCD(Abs(x[1]), y[2])
        g2 == GCD(Abs(y[1]), x[2])
    IN  <<(x[1] \div g1) * (y[1] \div g2), (x[2] \div g2) * (y[2] \div g1)>>

RInv(x) == IF x[1] < 0 THEN <<-x[2], -x[1]>> ELSE <<x[2], x[1]>>
RDiv(x, y) == RMul(x, RInv(y))

RLeq(x, y) ==
    LET g == GCD(x[2], y[2])
    IN  x[1] * (y[2] \div g) <= y[1] * (x[2] \div g)

RGeq(x, y) == RLeq(y, x)
RLt(x, y) == ~RLeq(y, x)

\* x ** t, by squaring
RECURSIVE RPow(_, _)
RPow(x, t) ==
    IF t = 0 THEN R1
    ELSE LET h == RPow(x, t \div 2)
         IN  IF t % 2 = 0 THEN RMul(h, h) ELSE RMul(x, RMul(h, h))

\* The sum of s[lo..hi], by halves
RECURSIVE RSumRange(_, _, _)
RSumRange(s, lo, hi) ==
    IF lo > hi THEN R0
    ELSE IF lo = hi THEN s[lo]
    ELSE LET mid == (lo + hi) \div 2
         IN  RAdd(RSumRange(s, lo, mid), RSumRange(s, mid + 1, hi))

\* np.sum(s)
RSum(s) == RSumRange(s, 1, Len(s))

\* ------------------------------------------------------- library functions
\* np.zeros(n)
Zeros(n) == [k \in 1..n |-> R0]

\* np.linspace(start, stop, num)[k], k = 0..num-1
Linspace(start, stop, num, k) ==
    RAdd(FromInt(start), RDiv(FromInt(k * (stop - start)), FromInt(num - 1)))

\* np.percentile(a, q), the default linear interpolation between the two
\* order statistics around the virtual index (n - 1) * q / 100.
Percentile(a, q) ==
    LET sorted == SortSeq(a, RLt)
        n      == Len(a)
        lo     == ((n - 1) * q) \div 100
        frac   == Rat(((n - 1) * q) % 100, 100)
    IN  IF frac = R0 THEN sorted[lo + 1]
        ELSE RAdd(sorted[lo + 1],
                  RMul(frac, RSub(sorted[lo + 2], sorted[lo + 1])))

\* np.mean(a)
Mean(a) == RDiv(RSum(a), FromInt(Len(a)))

\* pandas Series.min()
Min(col) == SortSeq(col, RLt)[1]

\* pandas Series.median()
Median(col) ==
    LET sorted == SortSeq(col, RLt)
        n      == Len(col)
    IN  IF n % 2 = 1 THEN sorted[(n + 1) \div 2]
        ELSE RDiv(RAdd(sorted[n \div 2], sorted[n \div 2 + 1]), FromInt(2))

\* ------------------------------------------------------------------- state
VARIABLES
    sim,                \* the instance: num_simulations, DISCOUNT_RATE, TIME_HORIZON
    args,               \* run_simulation's arguments
    rng,                \* state of the global random source
    pc,                 \* position of the run
    error,              \* the exception that ended the run, "none" if none
    drawn,              \* variates taken from the random source in this run
    cattle_revenues,
    soy_revenues,
    i,                  \* trial index of simulate_conventional_use's loop
    cash_flows,         \* the cash-flow vector of the latest trial
    conventional_npvs,
    si,                 \* index of stock_price on its axis
    fi,                 \* index of flow_price on its axis
    conservation_cash_flows,    \* the cash-flow vector of the latest grid point
    conservation_npv,           \* its NPV
    equilibrium_prices,
    results,
    run,                \* 1: first run, 2: second run with the same arguments
    seed_state,         \* state of the random source when run 1 started
    started_from,       \* state of the random source when this run started
    first,              \* what run 1 returned
    npv_call            \* a call of calculate_npv from outside the run

vars == <<sim, args, rng, pc, error, drawn, cattle_revenues, soy_revenues, i,
          cash_flows, conventional_npvs, si, fi, conservation_cash_flows,
          conservation_npv, equilibrium_prices, results, run, seed_state,
          started_from, first, npv_call>>

\* -------------------------------------------------------------- constants
CARBON_STOCK == 569
ANNUAL_ABSORPTION == Rat(19, 2)
PRICE_LOW == 0
PRICE_HIGH == 1000

\* The argument default discount_rate=None.
None == <<>>

\* ------------------------------------------------------------------ inputs
Rates == {FromInt(0), Rat(1, 2), FromInt(2)}

Sims ==
    [num_simulations : 1..MaxTrials, DISCOUNT_RATE : Rates,
     TIME_HORIZON : 0..MaxHorizon]
    \cup
    [num_simulations : 1..MaxTrials, DISCOUNT_RATE : {FromInt(0)},
     TIME_HORIZON : {LongHorizon}]

Arg(t, cm, cs, sm, ss) ==
    [timber_value |-> t, cattle_mean |-> cm, cattle_std |-> cs,
     soy_mean |-> sm, soy_std |-> ss]

Args ==
    { Arg(0, 800, 200, 6100, 300),
      Arg(5000, 800, 200, 6100, 300),
      Arg(5000, 800, 0, 6100, 0),
      Arg(-1000, 800, 200, 6100, 300),
      Arg(5000, 600000, 200, 6100, 300),
      Arg(0, 800, -200, 6100, 300),
      Arg(5000, 800, 200, 6100, -300) }

ZValues == {-1, 1}

Streams == [1..StreamPeriod -> ZValues]

NoResults ==
    [conventional_npv_mean |-> R0, conventional_npv_p75 |-> R0,
     min_stock_price |-> R0, min_flow_price |-> R0,
     recommended_stock_price |-> R0, recommended_flow_price |-> R0]

NoReturn == [conventional_npvs |-> <<>>, equilibrium_prices |-> <<>>]

NoCall == [cash_flows |-> <<>>, discount_rate |-> None, result |-> R0,
           returned |-> FALSE]

\* ------------------------------------------------------------ the program
\* generate_price_scenarios: np.random.normal(mean, std_dev, n) is
\* mean + std_dev * z for the next n standard normal variates z.
Variate(g, k) == g[((k - 1) % Len(g)) + 1]

generate_price_scenarios(g, mean_price, std_dev, n) ==
    [k \in 1..n |-> mean_price + std_dev * Variate(g, k)]

Advance(g, n) == [k \in 1..Len(g) |-> Variate(g, k + n)]

\* calculate_npv
calculate_npv_falsy(cash_flows_, discount_rate) ==
    LET r == IF discount_rate = None \/ discount_rate = R0
             THEN sim.DISCOUNT_RATE ELSE discount_rate
        discounted ==
            [t \in 1..Len(cash_flows_) |->
                RMul(cash_flows_[t], RInv(RPow(RAdd(R1, r), t - 1)))]
    IN  RSum(discounted)

calculate_npv(cash_flows_, discount_rate) ==
    LET r == IF discount_rate = None THEN sim.DISCOUNT_RATE ELSE discount_rate
        discounted ==
            [t \in 1..Len(cash_flows_) |->
                RMul(cash_flows_[t], RInv(RPow(RAdd(R1, r), t - 1)))]
    IN  RSum(discounted)

\* simulate_conventional_use, line 42: cash_flows = np.zeros(TIME_HORIZON),
\* a fresh vector for every trial (old: the previous trial's vector).
NewCashFlows_reused(old, n) == IF Len(old) = n THEN old ELSE Zeros(n)

NewCashFlows(old, n) == Zeros(n)

\* simulate_conventional_use, lines 51 and 53: cash_flows[year] += revenue
AddRevenue_assign(entry, revenue) == revenue

AddRevenue(entry, revenue) == RAdd(entry, revenue)

\* simulate_conventional_use, lines 42-53: one trial's cash-flow vector
TrialCashFlows(old, timber_value, cattle, soy) ==
    LET zeros  == NewCashFlows(old, sim.TIME_HORIZON)
        timber == IF timber_value > 0
                  THEN [zeros EXCEPT ![1] = FromInt(timber_value)]
                  ELSE zeros
    IN  [t \in 1..Len(timber) |->
            IF (t - 1) % 2 = 0
            THEN AddRevenue(timber[t], FromInt(cattle))
            ELSE AddRevenue(timber[t], FromInt(soy))]

\* simulate_conventional_use, line 39: conventional_npvs = []
NewNpvList_kept(old) == old

NewNpvList(old) == <<>>

\* find_equilibrium_carbon_prices, lines 63-64: the two price axes
stock_credit_prices(k) == Linspace(PRICE_LOW, PRICE_HIGH, Resolution, k)
flow_credit_prices(k) == Linspace(PRICE_LOW, PRICE_HIGH, Resolution, k)

\* find_equilibrium_carbon_prices, lines 71-78
ConservationCashFlows_flow_everywhere(stock_price, flow_price, n) ==
    [t \in 1..n |->
        IF t = 1
        THEN RAdd(RMul(FromInt(CARBON_STOCK), stock_price),
                  RMul(ANNUAL_ABSORPTION, flow_price))
        ELSE RMul(ANNUAL_ABSORPTION, flow_price)]

ConservationCashFlows(stock_price, flow_price, n) ==
    [t \in 1..n |->
        IF t = 1 THEN RMul(FromInt(CARBON_STOCK), stock_price)
        ELSE RMul(ANNUAL_ABSORPTION, flow_price)]

\* find_equilibrium_carbon_prices, line 83
IsCompetitive_median(npv, npvs) ==
    RGeq(npv, Percentile(npvs, 50))

IsCompetitive_flipped(npv, npvs) ==
    RLeq(npv, Percentile(npvs, 75))

IsCompetitive(npv, npvs) ==
    RGeq(npv, Percentile(npvs, 75))

\* run_simulation, lines 109-110
RecommendedPrice_min(column) == Min(column)

RecommendedPrice(column) == Median(column)

Column(frame, name) == [k \in 1..Len(frame) |-> frame[k][name]]

\* -------------------------------------------------------------------- Init
Idle ==
    /\ error = "none"
    /\ drawn = 0
    /\ cattle_revenues = <<>>
    /\ soy_revenues = <<>>
    /\ i = 0
    /\ cash_flows = <<>>
    /\ conventional_npvs = <<>>
    /\ si = 0
    /\ fi = 0
    /\ conservation_cash_flows = <<>>
    /\ conservation_npv = R0
    /\ equilibrium_prices = <<>>
    /\ results = NoResults
    /\ run = 1
    /\ first = NoReturn

Init ==
    /\ sim \in Sims
    /\ args \in Args
    /\ rng \in Streams
    /\ seed_state = rng
    /\ started_from = rng
    /\ pc = "cattle"
    /\ npv_call = NoCall
    /\ Idle

\* ----------------------------------------------------------------- actions
Raise(e) ==
    /\ pc' = "raised"
    /\ error' = e

\* simulate_conventional_use, line 35.  np.random.normal raises ValueError
\* for a negative scale, before it draws.
DrawCattle ==
    /\ pc = "cattle"
    /\ IF args.cattle_std < 0
       THEN /\ Raise("ValueError")
            /\ UNCHANGED <<rng, drawn, cattle_revenues>>
       ELSE /\ cattle_revenues' =
                  generate_price_scenarios(rng, args.cattle_mean,
                                           args.cattle_std, sim.num_simulations)
            /\ rng' = Advance(rng, sim.num_simulations)
            /\ drawn' = drawn + sim.num_simulations
            /\ pc' = "soy"
            /\ UNCHANGED error
    /\ UNCHANGED <<sim, args, soy_revenues, i, cash_flows, conventional_npvs,
                   si, fi, conservation_cash_flows, conservation_npv,
                   equilibrium_prices, results, run, seed_state, started_from,
                   first, npv_call>>

\* simulate_conventional_use, lines 36 and 39.
DrawSoy ==
    /\ pc = "soy"
    /\ IF args.soy_std < 0
       THEN /\ Raise("ValueError")
            /\ UNCHANGED <<rng, drawn, soy_revenues, conventional_npvs, i>>
       ELSE /\ soy_revenues' =
                  generate_price_scenarios(rng, args.soy_mean, args.soy_std,
                                           sim.num_simulations)
            /\ rng' = Advance(rng, sim.num_simulations)
            /\ drawn' = drawn + sim.num_simulations
            /\ conventional_npvs' = NewNpvList(conventional_npvs)
            /\ i' = 0
            /\ pc' = "trials"
            /\ UNCHANGED error
    /\ UNCHANGED <<sim, args, cattle_revenues, cash_flows, si, fi,
                   conservation_cash_flows, conservation_npv,
                   equilibrium_prices, results, run, seed_state, started_from,
                   first, npv_call>>

\* simulate_conventional_use, lines 40-58: one iteration of the trial loop.
\* With TIME_HORIZON = 0 the store cash_flows[0] = timber_value raises
\* IndexError.  After the last trial the search starts (line 66).
Trial ==
    /\ pc = "trials"
    /\ i < sim.num_simulations
    /\ IF sim.TIME_HORIZON = 0 /\ args.timber_value > 0
       THEN /\ Raise("IndexError")
            /\ UNCHANGED <<i, cash_flows, conventional_npvs, si, fi,
                           equilibrium_prices>>
       ELSE /\ cash_flows' = TrialCashFlows(cash_flows, args.timber_value,
                                            cattle_revenues[i + 1],
                                            soy_revenues[i + 1])
            /\ conventional_npvs' =
                  Append(conventional_npvs, calculate_npv(cash_flows', None))
            /\ i' = i + 1
            /\ IF i + 1 = sim.num_simulations
               THEN /\ pc' = "search"
                    /\ si' = 0
                    /\ fi' = 0
                    /\ equilibrium_prices' = <<>>
               ELSE /\ pc' = "trials"
                    /\ UNCHANGED <<si, fi, equilibrium_prices>>
            /\ UNCHANGED error
    /\ UNCHANGED <<sim, args, rng, drawn, cattle_revenues, soy_revenues,
                   conservation_cash_flows, conservation_npv, results, run,
                   seed_state, started_from, first, npv_call>>

\* find_equilibrium_carbon_prices, lines 68-88: one grid point.  With
\* TIME_HORIZON = 0 the store conservation_cash_flows[0] = ... raises
\* IndexError.
SearchPoint ==
    /\ pc = "search"
    /\ IF sim.TIME_HORIZON = 0
       THEN /\ Raise("IndexError")
            /\ UNCHANGED <<si, fi, conservation_cash_flows, conservation_npv,
                           equilibrium_prices>>
       ELSE LET stock_price == stock_credit_prices(si)
                flow_price  == flow_credit_prices(fi)
            IN  /\ conservation_cash_flows' =
                      ConservationCashFlows(stock_price, flow_price,
                                            sim.TIME_HORIZON)
                /\ conservation_npv' =
                      calculate_npv(conservation_cash_flows', None)
                /\ equilibrium_prices' =
                      IF IsCompetitive(conservation_npv', conventional_npvs)
                      THEN Append(equilibrium_prices,
                                  [stock_price |-> stock_price,
                                   flow_price |-> flow_price,
                                   conservation_npv |-> conservation_npv'])
                      ELSE equilibrium_prices
                /\ IF fi + 1 < Resolution
                   THEN /\ fi' = fi + 1
                        /\ UNCHANGED <<si, pc>>
                   ELSE /\ fi' = 0
                        /\ si' = si + 1
                        /\ pc' = IF si + 1 < Resolution THEN "search"
                                 ELSE "summarize"
                /\ UNCHANGED error
    /\ UNCHANGED <<sim, args, rng, drawn, cattle_revenues, soy_revenues, i,
                   cash_flows, conventional_npvs, results, run, seed_state,
                   started_from, first, npv_call>>

\* run_simulation, lines 104-113.  An empty list makes pd.DataFrame a frame
\* with no columns, and equilibrium_prices['stock_price'] raises KeyError.
Summarize ==
    /\ pc = "summarize"
    /\ IF Len(equilibrium_prices) = 0
       THEN /\ Raise("KeyError")
            /\ UNCHANGED results
       ELSE /\ results' =
                  [conventional_npv_mean |-> Mean(conventional_npvs),
                   conventional_npv_p75 |-> Percentile(conventional_npvs, 75),
                   min_stock_price |->
                       Min(Column(equilibrium_prices, "stock_price")),
                   min_flow_price |->
                       Min(Column(equilibrium_prices, "flow_price")),
                   recommended_stock_price |->
                       RecommendedPrice(Column(equilibrium_prices, "stock_price")),
                   recommended_flow_price |->
                       RecommendedPrice(Column(equilibrium_prices, "flow_price"))]
            /\ pc' = "returned"
            /\ UNCHANGED error
    /\ UNCHANGED <<sim, args, rng, drawn, cattle_revenues, soy_revenues, i,
                   cash_flows, conventional_npvs, si, fi,
                   conservation_cash_flows, conservation_npv,
                   equilibrium_prices, run, seed_state, started_from, first,
                   npv_call>>

\* main, lines 258-266, a second time with the same configuration and
\* arguments (the instance keeps no state of a run): either
\* after the random source was put back to the state run 1 started from
\* (np.random.seed with the same seed), or continuing from where run 1 left it.
RunAgain ==
    /\ pc = "returned"
    /\ run = 1
    /\ \E reseed \in BOOLEAN :
          rng' = IF reseed THEN seed_state ELSE rng
    /\ started_from' = rng'
    /\ first' = [conventional_npvs |-> conventional_npvs,
                 equilibrium_prices |-> equilibrium_prices]
    /\ run' = 2
    /\ drawn' = 0
    /\ pc' = "cattle"
    /\ UNCHANGED <<sim, args, error, cattle_revenues, soy_revenues, i,
                   cash_flows, conventional_npvs, si, fi,
                   conservation_cash_flows, conservation_npv,
                   equilibrium_prices, results, seed_state, npv_call>>

Next ==
    \/ DrawCattle
    \/ DrawSoy
    \/ Trial
    \/ SearchPoint
    \/ Summarize
    \/ RunAgain

Spec == Init /\ [][Next]_vars

\* ------------------------------------------- calculate_npv called directly
\* The cash-flow vectors and discount rates an outside caller passes.
CashFlowValues == {-1000, 0, 800, 6100}

Vectors == UNION {[1..n -> {FromInt(v) : v \in CashFlowValues}] : n \in 0..MaxLen}

InitNPV ==
    /\ sim \in {s \in Sims : s.num_simulations = 1 /\ s.TIME_HORIZON = 1}
    /\ args = Arg(0, 800, 200, 6100, 300)
    /\ rng = [k \in 1..StreamPeriod |-> 1]
    /\ seed_state = rng
    /\ started_from = rng
    /\ pc = "idle"
    /\ npv_call \in [cash_flows : Vectors, discount_rate : {None} \cup Rates,
                     result : {R0}, returned : {FALSE}]
    /\ Idle

\* sim.calculate_npv(cash_flows, discount_rate)
CallNPV ==
    /\ pc = "idle"
    /\ ~npv_call.returned
    /\ npv_call' =
          [npv_call EXCEPT
              !.result = calculate_npv(npv_call.cash_flows,
                                       npv_call.discount_rate),
              !.returned = TRUE]
    /\ UNCHANGED <<sim, args, rng, pc, error, drawn, cattle_revenues,
                   soy_revenues, i, cash_flows, conventional_npvs, si, fi,
                   conservation_cash_flows, conservation_npv,
                   equilibrium_prices, results, run, seed_state, started_from,
                   first>>

NextNPV == CallNPV

SpecNPV == InitNPV /\ [][NextNPV]_vars

\* ------------------------------------------------------------------ claims
Grid == 0..(Resolution - 1)

\* The 75th percentile of the conventional NPV distribution.
Threshold == Percentile(conventional_npvs, 75)

\* The conservation NPV of a price pair, from the formula of the design:
\* carbon_stock * stock_price in year 0, annual_absorption * flow_price in
\* every later year, discounted at the instance's rate.
PairNPV(stock_price, flow_price) ==
    calculate_npv(
        [t \in 1..sim.TIME_HORIZON |->
            IF t = 1 THEN RMul(FromInt(CARBON_STOCK), stock_price)
            ELSE RMul(ANNUAL_ABSORPTION, flow_price)],
        None)

\* How often the pair of grid indices (a, b) occurs in the equilibrium set.
Occurrences(a, b) ==
    Cardinality({k \in 1..Len(equilibrium_prices) :
                    /\ equilibrium_prices[k].stock_price = stock_credit_prices(a)
                    /\ equilibrium_prices[k].flow_price = flow_credit_prices(b)})

\* find_equilibrium_carbon_prices has just returned.
SearchFinished == pc = "summarize"

\* simulate_conventional_use has just returned.
SimulateFinished == pc = "search" /\ si = 0 /\ fi = 0

\* run_simulation has ended, by a return or by an exception, after
\* find_equilibrium_carbon_prices went through the whole grid.
EndedAfterSearch == pc \in {"returned", "raised"} /\ si = Resolution

\* The indices of the grid pairs in the equilibrium set.
Retained == {p \in Grid \X Grid : Occurrences(p[1], p[2]) > 0}

\* Every grid pair with its conservation NPV.
GridNPVs ==
    {<<a, b, PairNPV(stock_credit_prices(a), flow_credit_prices(b))>> :
        a \in Grid, b \in Grid}

\* C1: when the search retains no grid point, run_simulation returns (with a
\* result that signals "no equilibrium found"); it does not raise.
C1_EmptySetReturns ==
    (EndedAfterSearch /\ Len(equilibrium_prices) = 0)
        => (pc = "returned" /\ error = "none")

\* C2: a run with an invalid configuration ends in an InvalidConfiguration
\* error, and draws no revenue sample before it.
InvalidConfiguration ==
    \/ sim.num_simulations <= 0
    \/ sim.TIME_HORIZON <= 0
    \/ ~(RLt(R0, sim.DISCOUNT_RATE) /\ RLt(sim.DISCOUNT_RATE, R1))
    \/ args.cattle_std < 0
    \/ args.soy_std < 0

C2_InvalidConfigurationRejected ==
    (InvalidConfiguration /\ pc # "idle") =>
        /\ drawn = 0
        /\ pc \in {"cattle", "raised"}
        /\ pc = "raised" => error = "InvalidConfiguration"

\* C3: after the search, the equilibrium set holds every grid pair whose
\* conservation NPV is >= the 75th percentile of the conventional NPVs exactly
\* once, no other pair, and at most Resolution^2 entries.
C3_EquilibriumSetExact ==
    SearchFinished =>
        /\ LET threshold == Threshold
           IN  \A g \in GridNPVs :
                  Occurrences(g[1], g[2]) =
                      IF RGeq(g[3], threshold) THEN 1 ELSE 0
        /\ \A k \in 1..Len(equilibrium_prices) :
              \E a \in Grid : \E b \in Grid :
                  /\ equilibrium_prices[k].stock_price = stock_credit_prices(a)
                  /\ equilibrium_prices[k].flow_price = flow_credit_prices(b)
        /\ Len(equilibrium_prices) <= Resolution * Resolution

C3_Witness ==
    /\ SearchFinished
    /\ Len(equilibrium_prices) > 0
    /\ Len(equilibrium_prices) < Resolution * Resolution

\* C4: with timber_value >= 0 and TIME_HORIZON >= 1, the cash-flow vector of
\* trial i has TIME_HORIZON entries, and entry t is (timber_value if t = 0,
\* else 0) + (the trial's cattle revenue if t is even, else its soy revenue).
TrialDone ==
    /\ pc \in {"trials", "search", "summarize", "returned"}
    /\ i >= 1

C4_ConventionalCashFlows ==
    (TrialDone /\ args.timber_value >= 0 /\ sim.TIME_HORIZON >= 1) =>
        /\ Len(cash_flows) = sim.TIME_HORIZON
        /\ \A t \in 0..(sim.TIME_HORIZON - 1) :
              cash_flows[t + 1] =
                  FromInt((IF t = 0 THEN args.timber_value ELSE 0)
                          + (IF t % 2 = 0 THEN cattle_revenues[i]
                             ELSE soy_revenues[i]))

C4_Witness ==
    /\ TrialDone
    /\ args.timber_value > 0
    /\ sim.TIME_HORIZON >= 3
    /\ cattle_revenues[i] # soy_revenues[i]

\* C5: the conservation cash-flow vector of a grid pair has TIME_HORIZON
\* entries, entry 0 is CARBON_STOCK * stock_price with no flow payment, every
\* later entry is ANNUAL_ABSORPTION * flow_price; with TIME_HORIZON = 1 the
\* NPV is CARBON_STOCK * stock_price whatever the flow price.
PointDone ==
    \/ pc = "search" /\ (si > 0 \/ fi > 0)
    \/ pc = "summarize"

LastStock == stock_credit_prices(IF fi > 0 THEN si ELSE si - 1)
LastFlow == flow_credit_prices(IF fi > 0 THEN fi - 1 ELSE Resolution - 1)

C5_ConservationCashFlows ==
    (PointDone /\ sim.TIME_HORIZON >= 1) =>
        /\ Len(conservation_cash_flows) = sim.TIME_HORIZON
        /\ conservation_cash_flows[1] = RMul(FromInt(CARBON_STOCK), LastStock)
        /\ \A t \in 1..(sim.TIME_HORIZON - 1) :
              conservation_cash_flows[t + 1] = RMul(ANNUAL_ABSORPTION, LastFlow)
        /\ sim.TIME_HORIZON = 1 =>
              conservation_npv = RMul(FromInt(CARBON_STOCK), LastStock)

C5_Witness ==
    /\ PointDone
    /\ sim.TIME_HORIZON >= 2
    /\ LastFlow # R0
    /\ LastStock # R0

\* C6: calculate_npv(v, 0) is the sum of the entries of v, whatever the
\* instance's own discount rate.
C6_ZeroRateIsSum ==
    (npv_call.returned /\ npv_call.discount_rate = R0) =>
        npv_call.result = RSum(npv_call.cash_flows)

C6_Witness ==
    /\ npv_call.returned
    /\ npv_call.discount_rate = R0
    /\ sim.DISCOUNT_RATE # R0
    /\ Len(npv_call.cash_flows) >= 2
    /\ npv_call.cash_flows[2] # R0

\* C7: with a discount rate >= 0, raising the stock price or the flow price
\* alone never lowers the conservation NPV, and the equilibrium set is upward
\* closed in the grid.
C7_MonotoneUpwardClosed ==
    (SearchFinished /\ RGeq(sim.DISCOUNT_RATE, R0)) =>
        /\ LET npvs == GridNPVs
           IN  \A g \in npvs : \A h \in npvs :
                  (\/ h[1] = g[1] + 1 /\ h[2] = g[2]
                   \/ h[1] = g[1] /\ h[2] = g[2] + 1) => RGeq(h[3], g[3])
        /\ LET retained == Retained
           IN  \A p \in retained : \A q \in Grid \X Grid :
                  (q[1] >= p[1] /\ q[2] >= p[2]) => q \in retained

C7_Witness ==
    /\ SearchFinished
    /\ \E p \in Retained :
          /\ p[1] + 1 \in Grid
          /\ p[2] + 1 \in Grid
          /\ p[2] > 0
          /\ <<p[1], p[2] - 1>> \notin Retained

\* C8: simulate_conventional_use returns num_simulations values, and the
\* i-th is the NPV of the vector built from the i-th cattle draw and the i-th
\* soy draw alone.
OwnCashFlows(k) ==
    [t \in 1..sim.TIME_HORIZON |->
        FromInt((IF t = 1 /\ args.timber_value > 0 THEN args.timber_value ELSE 0)
                + (IF (t - 1) % 2 = 0 THEN cattle_revenues[k]
                   ELSE soy_revenues[k]))]

C8_TrialsIndependent ==
    /\ pc = "trials" => Len(conventional_npvs) = i
    /\ SimulateFinished =>
          /\ Len(conventional_npvs) = sim.num_simulations
          /\ \A k \in 1..sim.num_simulations :
                conventional_npvs[k] = calculate_npv(OwnCashFlows(k), None)

C8_Witness ==
    /\ SimulateFinished
    /\ sim.num_simulations >= 2
    /\ sim.TIME_HORIZON >= 2
    /\ cattle_revenues[1] # cattle_revenues[2]

\* C9: a second run with the same configuration and arguments, started from
\* the state of the random source the first run started from, returns the
\* same conventional NPV distribution and the same equilibrium set.
C9_SameSeedSameResult ==
    (run = 2 /\ pc = "returned" /\ started_from = seed_state) =>
        /\ conventional_npvs = first.conventional_npvs
        /\ equilibrium_prices = first.equilibrium_prices

C9_Witness ==
    /\ run = 2
    /\ pc = "returned"
    /\ started_from = seed_state
    /\ rng # seed_state
    /\ args.cattle_std > 0

\* C10: when the equilibrium set is not empty, the recommended pair (the two
\* medians) is competitive, and neither minimum exceeds its median.
C10_RecommendedIsCompetitive ==
    pc = "returned" =>
        /\ RGeq(PairNPV(results.recommended_stock_price,
                        results.recommended_flow_price),
                Threshold)
        /\ RLeq(results.min_stock_price, results.recommended_stock_price)
        /\ RLeq(results.min_flow_price, results.recommended_flow_price)

C10_Witness ==
    /\ pc = "returned"
    /\ Len(equilibrium_prices) < Resolution * Resolution
    /\ Occurrences(0, Resolution - 1) > 0
    /\ Occurrences(Resolution - 1, 0) > 0

====
